---- MODULE Spec2Model ----
(***************************************************************************)
(* A state-machine model of src/index.tsx, the controller of a browser     *)
(* camera page: device enumeration, stream acquisition, digital zoom,      *)
(* still capture, recording and export.                                    *)
(*                                                                         *)
(* Every event handler runs to its first await as one atomic step (the     *)
(* page has one UI thread); each continuation after an await is a step of  *)
(* its own, taken when the platform settles the awaited promise.           *)
(*                                                                         *)
(* Numbers: a zoom factor is kept in tenths (10 is 1.0); the crop          *)
(* arithmetic is done on exact fractions <<numerator, denominator>>, so    *)
(* the rounding of IEEE doubles is not modelled.                           *)
(***************************************************************************)
EXTENDS Integers, Sequences, FiniteSets, Bags, TLC

\* ------------------------------------------------------------- bounds
\* The largest number of video input devices attached to the machine.
MaxDevices == 2
\* The number of capture streams the platform hands out in one run.
MaxStreams == 2
\* The number of MediaRecorder objects constructed in one run.
MaxRecordings == 2
\* The zoom slider offers 1.0, 1.5, ... in MaxSliderStep steps of 0.5.
MaxSliderStep == 1
\* The crop arithmetic is explored on frames of 0..MaxFrameDim pixels a side
\* and on zoom factors of 0.1 .. MaxZoomTenths/10.
MaxFrameDim == 4
MaxZoomTenths == 30

\* ------------------------------------------------------------- state
VARIABLES
    \* the module's variables, lines 21-29
    currentStream,       \* 0 is null, otherwise an index into streams
    currentZoom,         \* in tenths
    hasStartedDrawing,
    mediaRecorder,       \* 0 is null, otherwise an index into recorders
    recordedChunks,      \* the chunks buffered, each named by its recorder
    isRecording,
    mediaType,           \* "null", "photo" or "video"
    videoDevices,        \* sequence of [deviceId, label]
    currentDeviceIndex,  \* 0-based, as in the source
    \* the DOM elements, lines 7-19
    ctx,                 \* whether canvas.getContext('2d') returned a context
    video,               \* [srcObject, paused]
    canvas,              \* [frame, image], the canvas shown
    photo,               \* [src, hidden]
    recordedVideo,       \* [src, hidden]
    captureButton,       \* [disabled]
    switchCameraButton,  \* [hidden, disabled]
    saveButton,          \* [hidden, disabled]
    zoomSlider,          \* [value, disabled]
    zoomValueDisplay,    \* the zoom shown, in tenths
    errorMsgElement,     \* [textContent, hidden]
    cameraSelect,        \* [value, disabled]; its options are videoDevices
    selectorContainer,   \* [hidden], the .camera-selector-container
    \* the platform
    cameras,             \* the number of video input devices attached
    streams,             \* every stream getUserMedia returned: [dev, live]
    recorders,           \* every MediaRecorder constructed: [state, audio]
    tasks,               \* the async calls suspended at an await, a bag
    animationFrames,     \* the drawFrame callbacks requested and not yet run
    link,                \* the link element the step just taken built
    unloaded,            \* the page has been torn down
    \* history
    produced,            \* the kind of the artifact produced last
    refreshes,           \* the calls initCamera made of populateCameraList
    chosen,              \* the device the user chose last, 0 when none yet
    \* the crop arithmetic on its own (specification SpecCrop)
    crop

appVars == <<currentStream, currentZoom, mediaRecorder, recordedChunks,
             isRecording, mediaType, videoDevices, currentDeviceIndex, ctx,
             video, photo, recordedVideo, captureButton, switchCameraButton,
             saveButton, zoomSlider, zoomValueDisplay, errorMsgElement,
             cameraSelect, selectorContainer, cameras, streams, recorders,
             tasks, link, unloaded, produced, hasStartedDrawing, canvas,
             animationFrames, refreshes, chosen>>

vars == <<appVars, crop>>

\* The variables of the render loop.
renderVars == <<hasStartedDrawing, animationFrames, canvas>>

\* ------------------------------------------------------------- values
\* The slider's positions, in tenths.
SliderValues == {10 + 5 * k : k \in 0..MaxSliderStep}

\* The device ids of the attached video inputs; the devices attached do not
\* change while the page is open.
DeviceIds == 1..cameras

\* What enumerateDevices() resolves to, filtered to the video inputs; the
\* labels are present only once permission has been granted.
EnumeratedDevices(labelled) ==
    [i \in 1..cameras |-> [deviceId |-> i, label |-> labelled]]

\* The error texts, by the place that shows them.
ErrNoCamera == "no camera available"
ErrEnumerate == "error while getting camera devices"
ErrCameraAccess == "could not access camera or microphone"
ErrCannotRecord == "cannot start recording: no stream or no context"
ErrCodec == "recording format not supported"

NoSrc == [kind |-> "none", chunks |-> <<>>]
DataUrl == [kind |-> "data", chunks |-> <<>>]
BlobUrl(chunks) == [kind |-> "blob", chunks |-> chunks]

\* No link element, and the link element saveMedia builds and drops when
\* there is nothing to save.
NoLink == [element |-> FALSE, clicked |-> FALSE, download |-> "", href |-> NoSrc]
DroppedLink == [element |-> TRUE, clicked |-> FALSE, download |-> "", href |-> NoSrc]

\* What the canvas shows: nothing, or the frame of a stream cropped at a
\* zoom factor.
NoImage == [frame |-> 0, zoom |-> 0]

\* The crop variable outside SpecCrop.
NoCrop == [pc |-> "off"]

\* ------------------------------------------------------------- numbers
\* A JavaScript number, as the exact fraction <<numerator, denominator>> in
\* lowest terms with a positive denominator.
RECURSIVE GCD(_, _)
GCD(a, b) == IF b = 0 THEN a ELSE GCD(b, a % b)

Abs(n) == IF n < 0 THEN -n ELSE n

Frac(n, d) ==
    LET g == GCD(Abs(n), Abs(d))
        sgn == IF d < 0 THEN -1 ELSE 1
    IN  <<(sgn * n) \div g, (sgn * d) \div g>>

Whole(n) == <<n, 1>>

\* x / y and x - y
Quotient(x, y) == Frac(x[1] * y[2], x[2] * y[1])
Difference(x, y) == Frac(x[1] * y[2] - y[1] * x[2], x[2] * y[2])

\* x <= y
AtMost(x, y) == x[1] * y[2] <= y[1] * x[2]

\* The integer a canvas dimension keeps of a non-negative number.
Truncated(x) == x[1] \div x[2]

\* ------------------------------------------------------------- crop
\* drawFrame's crop with the offsets not halved.
drawFrameCropNotHalved(frameW, frameH, z) ==
    LET zoom == Frac(z, 10)
        sourceWidth == Quotient(Whole(frameW), zoom)
        sourceHeight == Quotient(Whole(frameH), zoom)
        sourceX == Difference(Whole(frameW), sourceWidth)
        sourceY == Difference(Whole(frameH), sourceHeight)
    IN  [sourceX |-> sourceX, sourceY |-> sourceY,
         sourceWidth |-> sourceWidth, sourceHeight |-> sourceHeight]

\* drawFrame's crop of a frameW x frameH frame at zoom z (in tenths): the
\* source rectangle it hands to drawImage.
drawFrameCrop(frameW, frameH, z) ==
    LET zoom == Frac(z, 10)
        sourceWidth == Quotient(Whole(frameW), zoom)
        sourceHeight == Quotient(Whole(frameH), zoom)
        sourceX == Quotient(Difference(Whole(frameW), sourceWidth), Whole(2))
        sourceY == Quotient(Difference(Whole(frameH), sourceHeight), Whole(2))
    IN  [sourceX |-> sourceX, sourceY |-> sourceY,
         sourceWidth |-> sourceWidth, sourceHeight |-> sourceHeight]

\* takePicture's crop: the size it gives the off-screen canvas, and the
\* source rectangle it hands to drawImage.
takePictureCropOfCanvas(frameW, frameH, z) ==
    LET zoom == Frac(z, 10)
        sourceWidth == Quotient(Whole(frameW), zoom)
        sourceHeight == Quotient(Whole(frameH), zoom)
        canvasWidth == Truncated(sourceWidth)
        canvasHeight == Truncated(sourceHeight)
        sourceX == Quotient(Difference(Whole(frameW), Whole(canvasWidth)), Whole(2))
        sourceY == Quotient(Difference(Whole(frameH), Whole(canvasHeight)), Whole(2))
    IN  [canvasWidth |-> canvasWidth,
         canvasHeight |-> canvasHeight,
         sourceX |-> sourceX, sourceY |-> sourceY,
         sourceWidth |-> Whole(canvasWidth), sourceHeight |-> Whole(canvasHeight)]

takePictureCrop(frameW, frameH, z) ==
    LET zoom == Frac(z, 10)
        sourceWidth == Quotient(Whole(frameW), zoom)
        sourceHeight == Quotient(Whole(frameH), zoom)
        sourceX == Quotient(Difference(Whole(frameW), sourceWidth), Whole(2))
        sourceY == Quotient(Difference(Whole(frameH), sourceHeight), Whole(2))
    IN  [canvasWidth |-> Truncated(sourceWidth),
         canvasHeight |-> Truncated(sourceHeight),
         sourceX |-> sourceX, sourceY |-> sourceY,
         sourceWidth |-> sourceWidth, sourceHeight |-> sourceHeight]

\* ------------------------------------------------------------- helpers
\* One async call suspended at the await pc names; dev is the device its
\* getUserMedia request names, 0 when it names none, and stream the stream
\* the request resolved to, 0 before it has.
Task(pc, dev) == [pc |-> pc, dev |-> dev, stream |-> 0]

\* The bag of suspended calls with t resumed to rest on at pc, or ended.
Resumed(t, pc) ==
    (tasks (-) SetToBag({t})) (+) SetToBag({[t EXCEPT !.pc = pc]})
Ended(t) == tasks (-) SetToBag({t})

\* A step that is not a click on the save button offers no download.
noDownload == link' = NoLink

\* showError: the message region after showing message.
showError(message) == [textContent |-> message, hidden |-> FALSE]

\* stopCurrentStream's effect on the platform's streams: every track of the
\* current stream is stopped; with no current stream nothing happens.
stopCurrentStream(ss, cur) ==
    [i \in 1..Len(ss) |-> IF i = cur THEN [ss[i] EXCEPT !.live = FALSE] ELSE ss[i]]

\* initCamera's constraint: the exact device asked for, 0 when none is.
videoConstraints(deviceId, devs) ==
    IF deviceId # 0 THEN deviceId
    ELSE IF Len(devs) > 0 THEN devs[1].deviceId
    ELSE 0

\* videoDevices.findIndex(d => d.deviceId === id): 0-based, -1 when absent.
findIndex(devs, id) ==
    IF \E k \in 1..Len(devs) : devs[k].deviceId = id
    THEN (CHOOSE k \in 1..Len(devs) :
            /\ devs[k].deviceId = id
            /\ \A j \in 1..(k - 1) : devs[j].deviceId # id) - 1
    ELSE -1

\* Whether populateCameraList hides the switch controls of a device list
\* that is not empty.
noOtherDeviceOffByOne(devs) == Len(devs) < 1

noOtherDevice(devs) == Len(devs) <= 1

\* populateCameraList, after enumerateDevices() settled: what it leaves in
\* the device list, the dropdown, the switch controls and the message
\* region.  ok is FALSE when enumerateDevices() rejected.
populateCameraList(ok, devs) ==
    IF ~ok
    THEN [videoDevices |-> videoDevices,
          cameraSelect |-> cameraSelect,
          switchCameraButton |-> switchCameraButton,
          selectorContainer |-> selectorContainer,
          errorMsgElement |-> showError(ErrEnumerate)]
    ELSE IF Len(devs) = 0
    THEN [videoDevices |-> devs,
          cameraSelect |-> [cameraSelect EXCEPT !.value = 0],
          switchCameraButton |-> [switchCameraButton EXCEPT !.hidden = TRUE],
          selectorContainer |-> [selectorContainer EXCEPT !.hidden = TRUE],
          errorMsgElement |-> showError(ErrNoCamera)]
    ELSE [videoDevices |-> devs,
          \* the rebuilt dropdown selects its first option
          cameraSelect |-> [cameraSelect EXCEPT !.value = devs[1].deviceId],
          switchCameraButton |->
              [switchCameraButton EXCEPT !.hidden = noOtherDevice(devs)],
          selectorContainer |->
              [selectorContainer EXCEPT !.hidden = noOtherDevice(devs)],
          errorMsgElement |-> errorMsgElement]

\* initCamera up to its first await: the current stream is stopped and the
\* call suspends in getUserMedia.  pending are the other suspended calls.
initCamera(deviceId, devs, pending) ==
    /\ streams' = stopCurrentStream(streams, currentStream)
    /\ currentStream' = 0
    /\ tasks' = pending (+)
           SetToBag({Task("getUserMedia", videoConstraints(deviceId, devs))})

\* initCamera's last block, "sync UI with the actual stream we got", run on
\* device list devs, dropdown sel and message region msg.  Reading the
\* tracks of a null currentStream throws, and the catch shows the error.
syncUI(devs, sel, msg) ==
    IF currentStream = 0
    THEN /\ errorMsgElement' = showError(ErrCameraAccess)
         /\ cameraSelect' = sel
         /\ UNCHANGED currentDeviceIndex
    ELSE LET id == streams[currentStream].dev
             idx == findIndex(devs, id)
         IN  /\ errorMsgElement' = msg
             /\ IF idx # -1
                THEN /\ currentDeviceIndex' = idx
                     /\ cameraSelect' = [sel EXCEPT !.value = id]
                ELSE /\ cameraSelect' = sel
                     /\ UNCHANGED currentDeviceIndex

\* updateRecordingUI, for the recording state rec and device list devs.
updateRecordingUI(rec, devs) ==
    /\ captureButton' = [captureButton EXCEPT !.disabled = rec]
    /\ switchCameraButton' =
           [switchCameraButton EXCEPT !.disabled = IF rec THEN TRUE ELSE Len(devs) <= 1]
    /\ cameraSelect' =
           [cameraSelect EXCEPT !.disabled = IF rec THEN TRUE ELSE Len(devs) <= 1]
    /\ zoomSlider' = [zoomSlider EXCEPT !.disabled = FALSE]

\* ------------------------------------------------------------- Init
\* The page after the module has run: startApp() is suspended in its first
\* populateCameraList().  The page's markup is not part of the sources, so
\* the hidden attribute of the elements the code shows and hides is open.
InitApp ==
    /\ currentStream = 0
    /\ currentZoom = 10
    /\ mediaRecorder = 0
    /\ recordedChunks = <<>>
    /\ isRecording = FALSE
    /\ mediaType = "null"
    /\ videoDevices = <<>>
    /\ currentDeviceIndex = 0
    /\ ctx = TRUE
    /\ video = [srcObject |-> 0, paused |-> TRUE]
    /\ photo = [src |-> NoSrc, hidden |-> TRUE]
    /\ recordedVideo = [src |-> NoSrc, hidden |-> TRUE]
    /\ captureButton = [disabled |-> FALSE]
    /\ switchCameraButton = [hidden |-> FALSE, disabled |-> FALSE]
    /\ saveButton \in [hidden : BOOLEAN, disabled : {FALSE}]
    /\ zoomSlider = [value |-> 10, disabled |-> FALSE]
    /\ zoomValueDisplay = 10
    /\ errorMsgElement = [textContent |-> "", hidden |-> TRUE]
    /\ cameraSelect = [value |-> 0, disabled |-> FALSE]
    /\ selectorContainer = [hidden |-> FALSE]
    /\ cameras \in 0..MaxDevices
    /\ streams = <<>>
    /\ recorders = <<>>
    /\ tasks = SetToBag({Task("startApp", 0)})
    /\ link = NoLink
    /\ unloaded = FALSE
    /\ produced = "null"
    /\ hasStartedDrawing = FALSE
    /\ canvas = [frame |-> 0, image |-> NoImage]
    /\ animationFrames = 0
    /\ refreshes = 0
    /\ chosen = 0

Init == InitApp /\ crop = NoCrop

\* ------------------------------------------------------------- acquisition
\* Groups of variables an action leaves alone.
recordingVars == <<mediaRecorder, recordedChunks, isRecording, recorders>>
artifactVars == <<mediaType, photo, recordedVideo, saveButton, produced>>
zoomVars == <<currentZoom, zoomValueDisplay>>

\* The streams a call that is suspended in getUserMedia may still be given.
PendingRequests ==
    BagCardinality([t \in {u \in BagToSet(tasks) : u.pc = "getUserMedia"}
                       |-> CopiesIn(t, tasks)])

\* startApp, resumed when its populateCameraList() is done: the enumeration
\* resolved (ok) or was rejected (~ok); initCamera() is then called with no
\* device id.  Permission may have been granted on an earlier visit, so the
\* labels may be present already.
startApp(t, ok, labelled) ==
    /\ ~unloaded
    /\ t \in BagToSet(tasks)
    /\ t.pc = "startApp"
    /\ LET p == populateCameraList(ok, EnumeratedDevices(labelled))
       IN  /\ videoDevices' = p.videoDevices
           /\ cameraSelect' = p.cameraSelect
           /\ switchCameraButton' = p.switchCameraButton
           /\ selectorContainer' = p.selectorContainer
           /\ errorMsgElement' = p.errorMsgElement
           /\ initCamera(0, p.videoDevices, Ended(t))
    /\ noDownload
    /\ UNCHANGED <<recordingVars, artifactVars, zoomVars, zoomSlider,
                   currentDeviceIndex, ctx, cameras, video, captureButton,
                   unloaded, crop,
                   renderVars, refreshes, chosen>>

\* initCamera, resumed with the stream getUserMedia resolved to: a new live
\* stream of device d, the device the constraint names when it names one.
\* Loading the stream pauses the video and play() starts it again.
getUserMediaResolved(t, d) ==
    /\ ~unloaded
    /\ t \in BagToSet(tasks)
    /\ t.pc = "getUserMedia"
    /\ Len(streams) < MaxStreams
    /\ d \in DeviceIds
    /\ t.dev # 0 => d = t.dev
    /\ streams' = Append(streams, [dev |-> d, live |-> TRUE])
    /\ currentStream' = Len(streams) + 1
    /\ video' = [srcObject |-> Len(streams) + 1, paused |-> FALSE]
    /\ tasks' = Ended(t) (+)
           SetToBag({[t EXCEPT !.pc = "play", !.stream = Len(streams) + 1]})
    /\ noDownload
    /\ UNCHANGED <<recordingVars, artifactVars, zoomVars, zoomSlider,
                   videoDevices, currentDeviceIndex, ctx, cameras, captureButton,
                   switchCameraButton, errorMsgElement, cameraSelect,
                   selectorContainer, unloaded, crop,
                   renderVars, refreshes, chosen>>

\* initCamera's catch block, entered from a rejected await of call t.
initCameraCatch(t) ==
    /\ errorMsgElement' = showError(ErrCameraAccess)
    /\ tasks' = Ended(t)
    /\ noDownload
    /\ UNCHANGED <<recordingVars, artifactVars, zoomVars, zoomSlider,
                   currentStream, streams, video, videoDevices,
                   currentDeviceIndex, ctx, cameras, captureButton, switchCameraButton,
                   cameraSelect, selectorContainer, unloaded, crop,
                   renderVars, refreshes, chosen>>

\* getUserMedia rejected (permission denied, device busy, no device).
getUserMediaRejected(t) ==
    /\ ~unloaded
    /\ t \in BagToSet(tasks)
    /\ t.pc = "getUserMedia"
    /\ initCameraCatch(t)

\* video.play() rejected (playback not allowed, or aborted by a new load).
playRejected(t) ==
    /\ ~unloaded
    /\ t \in BagToSet(tasks)
    /\ t.pc = "play"
    /\ initCameraCatch(t)

\* initCamera, resumed when video.play() resolved, which it does only once
\* the video plays the stream loaded (loading another stream rejects the
\* promise): with a device list whose
\* first label is missing it suspends in populateCameraList(), otherwise it
\* runs to its end.
playResolved(t) ==
    /\ ~unloaded
    /\ t \in BagToSet(tasks)
    /\ t.pc = "play"
    /\ video.srcObject = t.stream
    /\ ~video.paused
    /\ IF Len(videoDevices) > 0 /\ ~videoDevices[1].label
       THEN /\ tasks' = Resumed(t, "populate")
            /\ refreshes' = refreshes + 1
            /\ UNCHANGED <<errorMsgElement, cameraSelect, currentDeviceIndex>>
       ELSE /\ tasks' = Ended(t)
            /\ syncUI(videoDevices, cameraSelect, errorMsgElement)
            /\ UNCHANGED refreshes
    /\ noDownload
    /\ UNCHANGED <<recordingVars, artifactVars, zoomVars, zoomSlider,
                   currentStream, streams, video, videoDevices, ctx, cameras,
                   captureButton, switchCameraButton, selectorContainer, unloaded, crop,
                   renderVars, chosen>>

\* initCamera, resumed when the populateCameraList() of line 118 is done;
\* permission has been granted by then, so the labels are present.
populated(t, ok) ==
    /\ ~unloaded
    /\ t \in BagToSet(tasks)
    /\ t.pc = "populate"
    /\ LET p == populateCameraList(ok, EnumeratedDevices(TRUE))
       IN  /\ videoDevices' = p.videoDevices
           /\ switchCameraButton' = p.switchCameraButton
           /\ selectorContainer' = p.selectorContainer
           /\ syncUI(p.videoDevices, p.cameraSelect, p.errorMsgElement)
    /\ tasks' = Ended(t)
    /\ noDownload
    /\ UNCHANGED <<recordingVars, artifactVars, zoomVars, zoomSlider,
                   currentStream, streams, video, ctx, cameras, captureButton,
                   unloaded, crop,
                   renderVars, refreshes, chosen>>

\* The zoom reset of both device handlers: the slider, the factor and the
\* figure shown go back to 1.0.
resetZoomKeepsFactor ==
    /\ zoomSlider' = [zoomSlider EXCEPT !.value = 10]
    /\ zoomValueDisplay' = 10
    /\ UNCHANGED currentZoom

resetZoom ==
    /\ zoomSlider' = [zoomSlider EXCEPT !.value = 10]
    /\ currentZoom' = 10
    /\ zoomValueDisplay' = 10

\* switchCamera, the click handler of the switch button.
switchCamera ==
    /\ ~unloaded
    /\ ~switchCameraButton.hidden
    /\ ~switchCameraButton.disabled
    /\ Len(streams) + PendingRequests < MaxStreams
    /\ IF Len(videoDevices) > 1
       THEN LET next == (currentDeviceIndex + 1) % Len(videoDevices)
                device == videoDevices[next + 1]
            IN  /\ currentDeviceIndex' = next
                /\ cameraSelect' = [cameraSelect EXCEPT !.value = device.deviceId]
                /\ resetZoom
                /\ initCamera(device.deviceId, videoDevices, tasks)
                /\ chosen' = device.deviceId
       ELSE UNCHANGED <<currentDeviceIndex, cameraSelect, zoomSlider,
                        currentZoom, zoomValueDisplay, streams,
                        currentStream, tasks, chosen>>
    /\ noDownload
    /\ UNCHANGED <<recordingVars, artifactVars, videoDevices, ctx, cameras, video,
                   captureButton, switchCameraButton, errorMsgElement,
                   selectorContainer, unloaded, crop,
                   renderVars, refreshes>>

\* handleCameraSelectChange, the change handler of the dropdown: the user
\* has picked option d, another one than the one shown.
handleCameraSelectChange(d) ==
    /\ ~unloaded
    /\ ~selectorContainer.hidden
    /\ ~cameraSelect.disabled
    /\ Len(streams) + PendingRequests < MaxStreams
    /\ \E k \in 1..Len(videoDevices) : videoDevices[k].deviceId = d
    /\ d # cameraSelect.value
    /\ cameraSelect' = [cameraSelect EXCEPT !.value = d]
    /\ resetZoom
    /\ initCamera(d, videoDevices, tasks)
    /\ chosen' = d
    /\ noDownload
    /\ UNCHANGED <<recordingVars, artifactVars, videoDevices,
                   currentDeviceIndex, ctx, cameras, video, captureButton,
                   switchCameraButton, errorMsgElement, selectorContainer, unloaded, crop,
                   renderVars, refreshes>>

\* The beforeunload listener: the stream is released and the page is gone.
beforeunload ==
    /\ ~unloaded
    /\ unloaded' = TRUE
    /\ streams' = stopCurrentStream(streams, currentStream)
    /\ currentStream' = 0
    /\ noDownload
    /\ UNCHANGED <<recordingVars, artifactVars, zoomVars, zoomSlider,
                   videoDevices, currentDeviceIndex, ctx, cameras, video,
                   captureButton, switchCameraButton, errorMsgElement,
                   cameraSelect, selectorContainer, tasks, crop,
                   renderVars, refreshes, chosen>>

\* ------------------------------------------------------------- capture
acquisitionVars == <<currentStream, streams, video, videoDevices,
                     currentDeviceIndex, tasks, selectorContainer>>

\* takePicture, the click handler of the capture button.  The off-screen
\* canvas is taken to give a 2d context.
takePicture ==
    /\ ~unloaded
    /\ ~captureButton.disabled
    /\ IF ~ctx
       THEN UNCHANGED artifactVars
       ELSE /\ photo' = [src |-> DataUrl, hidden |-> FALSE]
            /\ recordedVideo' = [recordedVideo EXCEPT !.hidden = TRUE]
            /\ saveButton' = [saveButton EXCEPT !.hidden = FALSE]
            /\ mediaType' = "photo"
            /\ produced' = "photo"
    /\ noDownload
    /\ UNCHANGED <<acquisitionVars, recordingVars, zoomVars, zoomSlider, ctx, cameras,
                   captureButton, switchCameraButton, errorMsgElement,
                   cameraSelect, unloaded, crop,
                   renderVars, refreshes, chosen>>

\* ------------------------------------------------------------- recording
\* startRecording's guard: no stream, or no drawing context.
cannotRecordWithoutContext == ~ctx

cannotRecord == currentStream = 0 \/ ~ctx

\* startRecording's catch block: the constructor of MediaRecorder threw.
recorderRejectedGoesOn ==
    /\ errorMsgElement' = showError(ErrCodec)
    /\ isRecording' = TRUE
    /\ updateRecordingUI(TRUE, videoDevices)
    /\ UNCHANGED <<mediaRecorder, recorders>>

recorderRejected ==
    /\ errorMsgElement' = showError(ErrCodec)
    /\ UNCHANGED <<mediaRecorder, isRecording, recorders, captureButton,
                   switchCameraButton, cameraSelect, zoomSlider>>

\* startRecording with isRecording set before the recorder is constructed.
startRecordingSetsStateFirst ==
    IF cannotRecord
    THEN /\ errorMsgElement' = showError(ErrCannotRecord)
         /\ UNCHANGED <<recordingVars, captureButton, switchCameraButton,
                        cameraSelect, zoomSlider>>
    ELSE /\ recordedChunks' = <<>>
         /\ isRecording' = TRUE
         /\ \/ /\ errorMsgElement' = showError(ErrCodec)
               /\ UNCHANGED <<mediaRecorder, recorders, captureButton,
                              switchCameraButton, cameraSelect, zoomSlider>>
            \/ /\ Len(recorders) < MaxRecordings
               /\ recorders' = Append(recorders,
                      [state |-> "recording", audio |-> currentStream])
               /\ mediaRecorder' = Len(recorders) + 1
               /\ updateRecordingUI(TRUE, videoDevices)
               /\ UNCHANGED errorMsgElement

\* startRecording.  The constructor of MediaRecorder either throws (the
\* platform does not record the requested format) or gives a recorder, which
\* is started.
startRecording ==
    IF cannotRecord
    THEN /\ errorMsgElement' = showError(ErrCannotRecord)
         /\ UNCHANGED <<recordingVars, captureButton, switchCameraButton,
                        cameraSelect, zoomSlider>>
    ELSE /\ recordedChunks' = <<>>
         /\ \/ recorderRejected
            \/ /\ Len(recorders) < MaxRecordings
               /\ recorders' = Append(recorders,
                      [state |-> "recording", audio |-> currentStream])
               /\ mediaRecorder' = Len(recorders) + 1
               /\ isRecording' = TRUE
               /\ updateRecordingUI(TRUE, videoDevices)
               /\ UNCHANGED errorMsgElement

\* stopRecording: the recorder is told to stop; it finalizes later.
stopRecording ==
    IF mediaRecorder # 0
    THEN /\ recorders' = [recorders EXCEPT ![mediaRecorder].state =
                             IF @ = "recording" THEN "stopping" ELSE @]
         /\ isRecording' = FALSE
         /\ updateRecordingUI(FALSE, videoDevices)
         /\ UNCHANGED <<mediaRecorder, recordedChunks, errorMsgElement>>
    ELSE UNCHANGED <<recordingVars, captureButton, switchCameraButton,
                     cameraSelect, zoomSlider, errorMsgElement>>

\* toggleRecording, the click handler of the record button.
toggleRecording ==
    /\ ~unloaded
    /\ IF ~isRecording THEN startRecording ELSE stopRecording
    /\ noDownload
    /\ UNCHANGED <<acquisitionVars, artifactVars, zoomVars, ctx, cameras,
                   unloaded, crop,
                   renderVars, refreshes, chosen>>

\* The ondataavailable handler of recorder r, given size bytes: the buffer
\* it leaves.
ondataavailable(r, size) ==
    IF size > 0 THEN Append(recordedChunks, r) ELSE recordedChunks

\* The onstop handler, run on the buffer chunks: the clip is published.
onstopUnlessEmpty(chunks) ==
    IF chunks = <<>>
    THEN UNCHANGED artifactVars
    ELSE /\ recordedVideo' = [src |-> BlobUrl(chunks), hidden |-> FALSE]
         /\ photo' = [photo EXCEPT !.hidden = TRUE]
         /\ saveButton' = [saveButton EXCEPT !.hidden = FALSE]
         /\ mediaType' = "video"
         /\ produced' = "video"

onstop(chunks) ==
    /\ recordedVideo' = [src |-> BlobUrl(chunks), hidden |-> FALSE]
    /\ photo' = [photo EXCEPT !.hidden = TRUE]
    /\ saveButton' = [saveButton EXCEPT !.hidden = FALSE]
    /\ mediaType' = "video"
    /\ produced' = "video"

\* The task a stopped recorder r queues: its dataavailable event, with the
\* data gathered (size bytes), and then its stop event.
mediaRecorderStopped(r, size) ==
    /\ ~unloaded
    /\ r \in 1..Len(recorders)
    /\ recorders[r].state = "stopping"
    /\ recordedChunks' = ondataavailable(r, size)
    /\ onstop(ondataavailable(r, size))
    /\ recorders' = [recorders EXCEPT ![r].state = "inactive"]
    /\ noDownload
    /\ UNCHANGED <<acquisitionVars, mediaRecorder, isRecording, zoomVars,
                   zoomSlider, ctx, cameras, captureButton, switchCameraButton,
                   errorMsgElement, cameraSelect, unloaded, crop,
                   renderVars, refreshes, chosen>>

\* ------------------------------------------------------------- export
\* The link saveMedia builds, and clicks unless there is nothing to save.
PhotoName == "photo-<timestamp>.jpg"
VideoName == "video-<timestamp>.mp4"

downloadPhotoFirst ==
    IF photo.src # NoSrc
    THEN [element |-> TRUE, clicked |-> TRUE, download |-> PhotoName, href |-> photo.src]
    ELSE IF recordedVideo.src # NoSrc
    THEN [element |-> TRUE, clicked |-> TRUE, download |-> VideoName, href |-> recordedVideo.src]
    ELSE DroppedLink

\* saveMedia without the return of its last branch.
downloadWithoutReturn ==
    IF mediaType = "photo" /\ photo.src # NoSrc
    THEN [element |-> TRUE, clicked |-> TRUE, download |-> PhotoName, href |-> photo.src]
    ELSE IF mediaType = "video" /\ recordedVideo.src # NoSrc
    THEN [element |-> TRUE, clicked |-> TRUE, download |-> VideoName, href |-> recordedVideo.src]
    ELSE [element |-> TRUE, clicked |-> TRUE, download |-> "", href |-> NoSrc]

download ==
    IF mediaType = "photo" /\ photo.src # NoSrc
    THEN [element |-> TRUE, clicked |-> TRUE, download |-> PhotoName, href |-> photo.src]
    ELSE IF mediaType = "video" /\ recordedVideo.src # NoSrc
    THEN [element |-> TRUE, clicked |-> TRUE, download |-> VideoName, href |-> recordedVideo.src]
    ELSE DroppedLink

\* saveMedia, the click handler of the save button.
saveMedia ==
    /\ ~unloaded
    /\ ~saveButton.hidden
    /\ ~saveButton.disabled
    /\ link' = download
    /\ UNCHANGED <<acquisitionVars, recordingVars, artifactVars, zoomVars,
                   zoomSlider, ctx, cameras, captureButton, switchCameraButton,
                   errorMsgElement, cameraSelect, unloaded, crop,
                   renderVars, refreshes, chosen>>

\* ------------------------------------------------------------- zoom
\* handleZoomChange, the input handler of the slider, moved to z.
handleZoomChange(z) ==
    /\ ~unloaded
    /\ ~zoomSlider.disabled
    /\ z # zoomSlider.value
    /\ zoomSlider' = [zoomSlider EXCEPT !.value = z]
    /\ currentZoom' = z
    /\ zoomValueDisplay' = z
    /\ noDownload
    /\ UNCHANGED <<acquisitionVars, recordingVars, artifactVars, ctx, cameras,
                   captureButton, switchCameraButton, errorMsgElement,
                   cameraSelect, unloaded, crop,
                   renderVars, refreshes, chosen>>

\* ------------------------------------------------------------- render loop
\* video.ended: every track of the stream the video shows has been stopped.
videoEnded == video.srcObject # 0 /\ ~streams[video.srcObject].live

\* The guarded request of the 'playing' listener, lines 366-369.
requestOnEveryPlaying ==
    /\ animationFrames' = animationFrames + 1
    /\ hasStartedDrawing' = TRUE

requestFirstFrame ==
    IF ~hasStartedDrawing
    THEN /\ animationFrames' = animationFrames + 1
         /\ hasStartedDrawing' = TRUE
    ELSE UNCHANGED <<animationFrames, hasStartedDrawing>>

\* The 'playing' listener of the video: playback has started, or started
\* again.  The canvas is given half the frame size of the stream shown,
\* which clears it, and the first event requests the first drawFrame.
playing ==
    /\ ~unloaded
    /\ video.srcObject # 0
    /\ ~video.paused
    /\ ~videoEnded
    /\ canvas' = [frame |-> video.srcObject, image |-> NoImage]
    /\ requestFirstFrame
    /\ noDownload
    /\ UNCHANGED <<acquisitionVars, recordingVars, artifactVars, zoomVars,
                   zoomSlider, ctx, cameras, captureButton, switchCameraButton,
                   errorMsgElement, cameraSelect, unloaded, crop, refreshes,
                   chosen>>

\* The platform pauses the video: the page was hidden, or the user paused
\* it.  The handlers do not hear of it; drawFrame reads video.paused.
videoPaused ==
    /\ ~unloaded
    /\ video.srcObject # 0
    /\ ~video.paused
    /\ video' = [video EXCEPT !.paused = TRUE]
    /\ noDownload
    /\ UNCHANGED <<currentStream, streams, videoDevices, currentDeviceIndex,
                   tasks, selectorContainer, recordingVars, artifactVars,
                   zoomVars, zoomSlider, ctx, cameras, captureButton,
                   switchCameraButton, errorMsgElement, cameraSelect,
                   unloaded, crop, renderVars, refreshes, chosen>>

\* The early return of drawFrame: nothing is drawn.
drawsNothing == ~ctx \/ video.paused \/ videoEnded

\* One run of drawFrame as an animation frame callback: the request that
\* ran is spent, the frame shown is drawn cropped at the current zoom unless
\* there is nothing to draw, and drawFrame is requested again.
animationFrame ==
    /\ ~unloaded
    /\ animationFrames > 0
    /\ IF drawsNothing
       THEN UNCHANGED canvas
       ELSE canvas' = [canvas EXCEPT
                          !.image = [frame |-> video.srcObject, zoom |-> currentZoom]]
    /\ animationFrames' = (animationFrames - 1) + 1
    /\ noDownload
    /\ UNCHANGED <<acquisitionVars, recordingVars, artifactVars, zoomVars,
                   zoomSlider, ctx, cameras, captureButton, switchCameraButton,
                   errorMsgElement, cameraSelect, unloaded, hasStartedDrawing,
                   crop, refreshes, chosen>>

\* ------------------------------------------------------------- the page
Next ==
    \/ \E t \in BagToSet(tasks), ok \in BOOLEAN, labelled \in BOOLEAN :
          startApp(t, ok, labelled)
    \/ \E t \in BagToSet(tasks), d \in DeviceIds : getUserMediaResolved(t, d)
    \/ \E t \in BagToSet(tasks) : getUserMediaRejected(t)
    \/ \E t \in BagToSet(tasks) : playResolved(t)
    \/ \E t \in BagToSet(tasks) : playRejected(t)
    \/ \E t \in BagToSet(tasks), ok \in BOOLEAN : populated(t, ok)
    \/ switchCamera
    \/ \E d \in DeviceIds : handleCameraSelectChange(d)
    \/ takePicture
    \/ toggleRecording
    \/ \E r \in 1..MaxRecordings, size \in 0..1 : mediaRecorderStopped(r, size)
    \/ saveMedia
    \/ \E z \in SliderValues : handleZoomChange(z)
    \/ beforeunload

Spec == Init /\ [][Next]_vars

\* Acquisition on its own: the page without the capture, recording and
\* export handlers.  Those handlers write none of the variables of
\* acquisitionVars; all they do to the handlers kept is to disable the switch
\* controls, which only takes steps away.
NextAcq ==
    \/ \E t \in BagToSet(tasks), ok \in BOOLEAN, labelled \in BOOLEAN :
          startApp(t, ok, labelled)
    \/ \E t \in BagToSet(tasks), d \in DeviceIds : getUserMediaResolved(t, d)
    \/ \E t \in BagToSet(tasks) : getUserMediaRejected(t)
    \/ \E t \in BagToSet(tasks) : playResolved(t)
    \/ \E t \in BagToSet(tasks) : playRejected(t)
    \/ \E t \in BagToSet(tasks), ok \in BOOLEAN : populated(t, ok)
    \/ switchCamera
    \/ \E d \in DeviceIds : handleCameraSelectChange(d)
    \/ \E z \in SliderValues : handleZoomChange(z)
    \/ beforeunload

SpecAcq == Init /\ [][NextAcq]_vars

\* Capture, recording and export on the stream startApp acquires: the page
\* without the two handlers that switch devices.
NextRec ==
    \/ \E t \in BagToSet(tasks), ok \in BOOLEAN, labelled \in BOOLEAN :
          startApp(t, ok, labelled)
    \/ \E t \in BagToSet(tasks), d \in DeviceIds : getUserMediaResolved(t, d)
    \/ \E t \in BagToSet(tasks) : getUserMediaRejected(t)
    \/ \E t \in BagToSet(tasks) : playResolved(t)
    \/ \E t \in BagToSet(tasks) : playRejected(t)
    \/ \E t \in BagToSet(tasks), ok \in BOOLEAN : populated(t, ok)
    \/ takePicture
    \/ toggleRecording
    \/ \E r \in 1..MaxRecordings, size \in 0..1 : mediaRecorderStopped(r, size)
    \/ saveMedia
    \/ \E z \in SliderValues : handleZoomChange(z)
    \/ beforeunload

SpecRec == Init /\ [][NextRec]_vars

\* Acquisition with the render loop: the 'playing' listener, the animation
\* frame callback and the platform pausing the video, next to the handlers
\* of NextAcq.  The render loop writes the canvas and its own two variables
\* only.
NextLoop ==
    \/ NextAcq
    \/ playing
    \/ animationFrame
    \/ videoPaused

SpecLoop == Init /\ [][NextLoop]_vars

\* ------------------------------------------------------------- crop alone
\* The crop arithmetic on every frame size and zoom factor of the bounds:
\* the render loop draws the frame and the capture handler captures it, in
\* either order.
InitCrop ==
    /\ InitApp
    /\ crop \in [pc : {"frame"}, frameW : 0..MaxFrameDim,
                 frameH : 0..MaxFrameDim, zoom : 1..MaxZoomTenths,
                 drawn : {<<>>}, taken : {<<>>}]

drawFrame ==
    /\ crop.pc = "frame"
    /\ crop.drawn = <<>>
    /\ crop' = [crop EXCEPT
                   !.drawn = <<drawFrameCrop(crop.frameW, crop.frameH, crop.zoom)>>]
    /\ UNCHANGED appVars

takePictureFrame ==
    /\ crop.pc = "frame"
    /\ crop.taken = <<>>
    /\ crop' = [crop EXCEPT
                   !.taken = <<takePictureCrop(crop.frameW, crop.frameH, crop.zoom)>>]
    /\ UNCHANGED appVars

NextCrop == drawFrame \/ takePictureFrame

SpecCrop == InitCrop /\ [][NextCrop]_vars

\* ------------------------------------------------------------- properties
\* A step that issues a getUserMedia request for a device change: the
\* suspended calls grow by one (startApp's own request replaces startApp).
DeviceChange == BagCardinality(tasks') > BagCardinality(tasks)

\* The streams whose tracks have not been stopped.
LiveStreams == {i \in 1..Len(streams) : streams[i].live}

\* C1: at most one acquired stream is live: every stream getUserMedia ever
\* returned, other than the value of currentStream, has been stopped.
C1_OnlyCurrentStreamLive ==
    \A i \in LiveStreams : i = currentStream

\* C2: a device change resets the zoom before it re-acquires: in the step
\* in which switchCamera (with more than one device) or
\* handleCameraSelectChange stops the stream and issues the getUserMedia
\* request, currentZoom is 1.0 and the request names the device chosen: the
\* one after the current index for switchCamera, the option picked for
\* handleCameraSelectChange.
C2_ZoomResetBeforeReacquire ==
    [][DeviceChange =>
        /\ currentZoom' = 10
        /\ currentStream' = 0
        /\ currentStream # 0 => ~streams'[currentStream].live
        /\ tasks' = tasks (+) SetToBag({Task("getUserMedia", cameraSelect'.value)})
        /\ cameraSelect'.value \in DeviceIds
        /\ switchCamera =>
              cameraSelect'.value =
                  videoDevices[((currentDeviceIndex + 1) % Len(videoDevices)) + 1].deviceId
        /\ \A d \in DeviceIds :
              handleCameraSelectChange(d) => cameraSelect'.value = d
    ]_vars

\* C2's case: switchCamera has moved from the first device to the second,
\* stopped the stream of the first and asked for the second, at zoom 1.0.
C2_Witness ==
    /\ currentDeviceIndex = 1
    /\ currentStream = 0
    /\ Len(streams) = 1
    /\ ~streams[1].live
    /\ BagIn(Task("getUserMedia", 2), tasks)
    /\ currentZoom = 10

\* C3: on the same frame and zoom factor the render loop and the capture
\* handler compute the same crop rectangle.
C3_SameCrop ==
    (crop.pc = "frame" /\ crop.drawn # <<>> /\ crop.taken # <<>>) =>
        /\ crop.drawn[1].sourceX = crop.taken[1].sourceX
        /\ crop.drawn[1].sourceY = crop.taken[1].sourceY
        /\ crop.drawn[1].sourceWidth = crop.taken[1].sourceWidth
        /\ crop.drawn[1].sourceHeight = crop.taken[1].sourceHeight

\* C3's case: both have run on a 4 x 3 frame at zoom 3.0, whose crop is a
\* fraction of a pixel wide.
C3_Witness ==
    /\ crop.pc = "frame"
    /\ crop.frameW = 4 /\ crop.frameH = 3 /\ crop.zoom = 30
    /\ crop.drawn # <<>> /\ crop.taken # <<>>
    /\ crop.taken[1].sourceWidth = <<4, 3>>
    /\ crop.taken[1].canvasWidth = 1

\* A step in which a call of initCamera takes its error branch: an await was
\* rejected, or the last block read the tracks of a null currentStream.
InitCameraFails ==
    \E t \in BagToSet(tasks) :
        \/ getUserMediaRejected(t)
        \/ playRejected(t)
        \/ playResolved(t) /\ tasks' = Ended(t) /\ currentStream = 0
        \/ \E ok \in BOOLEAN : populated(t, ok) /\ currentStream = 0

\* C4: when initCamera takes its error branch an error message is shown and
\* no stream is active afterwards: currentStream is null and no stream is
\* left live.
C4_FailureLeavesNoStream ==
    [][InitCameraFails =>
        /\ errorMsgElement' = showError(ErrCameraAccess)
        /\ currentStream' = 0
        /\ \A i \in 1..Len(streams') : ~streams'[i].live
    ]_vars

\* C4's claim fails where video.play() is rejected after getUserMedia gave
\* a stream, and where one call fails while another call's stream is active.

\* The controls updateRecordingUI and the markup leave enabled in Idle.
NoControlDisabled ==
    /\ ~captureButton.disabled
    /\ ~switchCameraButton.disabled
    /\ ~cameraSelect.disabled
    /\ ~zoomSlider.disabled
    /\ ~saveButton.disabled

\* C5: the record toggle, pressed while Idle with no active stream, shows an
\* error and leaves the page Idle: isRecording stays false, no control is
\* disabled and the current artifact is unchanged.
C5_NoStreamNoRecording ==
    [][(toggleRecording /\ ~isRecording /\ currentStream = 0) =>
        /\ errorMsgElement' = showError(ErrCannotRecord)
        /\ ~isRecording'
        /\ NoControlDisabled'
        /\ UNCHANGED <<mediaType, photo, recordedVideo, saveButton, produced>>
        /\ UNCHANGED <<mediaRecorder, recorders>>
    ]_vars

\* C5's case: the toggle was refused while a re-acquisition was pending,
\* after a clip had been published.
C5_Witness ==
    /\ errorMsgElement = showError(ErrCannotRecord)
    /\ ~isRecording
    /\ currentStream = 0
    /\ Len(streams) > 0
    /\ PendingRequests > 0
    /\ mediaType = "video"

\* A step of the record toggle in which the constructor of MediaRecorder
\* threw: pressed while Idle with a stream, it made no recorder.
CodecRejected ==
    /\ toggleRecording
    /\ ~isRecording
    /\ currentStream # 0
    /\ Len(recorders') = Len(recorders)

\* C6: when the platform rejects the requested format an error is shown and
\* the page stays Idle: isRecording stays false, the controls keep their
\* enablement and the current artifact is not modified, so that the next
\* toggle starts again.
C6_CodecRejectedStaysIdle ==
    [][CodecRejected =>
        /\ errorMsgElement' = showError(ErrCodec)
        /\ ~isRecording'
        /\ UNCHANGED <<captureButton, switchCameraButton, cameraSelect,
                       zoomSlider, saveButton>>
        /\ UNCHANGED <<mediaType, photo, recordedVideo, produced>>
        /\ UNCHANGED <<mediaRecorder, recorders>>
    ]_vars

\* C6's case: the format was rejected after a photo had been taken, and the
\* page is Idle with the photo still the artifact.
C6_Witness ==
    /\ errorMsgElement = showError(ErrCodec)
    /\ ~isRecording
    /\ currentStream # 0
    /\ mediaType = "photo"
    /\ recorders = <<>>

\* C7: from Recording, stopRecording returns the page to Idle and leaves
\* the recorder finalizing; the finalization publishes a video clip as the
\* current artifact, with the save button shown, also when no chunk that is
\* not empty was buffered.
C7_StopPublishesClip ==
    [][/\ (toggleRecording /\ isRecording) =>
            /\ ~isRecording'
            /\ recorders'[mediaRecorder].state = "stopping"
       /\ \A r \in 1..Len(recorders), size \in 0..1 :
            mediaRecorderStopped(r, size) =>
                /\ mediaType' = "video"
                /\ produced' = "video"
                /\ recordedVideo' = [src |-> BlobUrl(recordedChunks'), hidden |-> FALSE]
                /\ photo'.hidden
                /\ ~saveButton'.hidden
                /\ UNCHANGED isRecording
    ]_vars

\* C7's case: a recording was stopped and finalized with no chunk buffered,
\* replacing a photo as the artifact.
C7_Witness ==
    /\ ~isRecording
    /\ mediaType = "video"
    /\ recordedVideo = [src |-> BlobUrl(<<>>), hidden |-> FALSE]
    /\ photo.src = DataUrl
    /\ photo.hidden
    /\ ~saveButton.hidden
    /\ Len(recorders) = 1
    /\ recorders[1].state = "inactive"

\* C8: once an artifact has been produced, saveMedia offers exactly one file,
\* of the kind of the artifact produced last: the photo as
\* photo-<timestamp>.jpg, the clip as video-<timestamp>.mp4.
C8_SaveOffersLatest ==
    [][(saveMedia /\ produced # "null") =>
        /\ link'.clicked
        /\ produced = "photo" =>
              link' = [element |-> TRUE, clicked |-> TRUE, download |-> PhotoName, href |-> photo.src]
        /\ produced = "video" =>
              link' = [element |-> TRUE, clicked |-> TRUE, download |-> VideoName, href |-> recordedVideo.src]
        /\ link'.href # NoSrc
    ]_vars

\* C8's case: after a photo and then a finished recording, the video alone
\* has been offered.
C8_Witness ==
    /\ link.clicked
    /\ link.download = VideoName
    /\ link.href = recordedVideo.src
    /\ photo.src = DataUrl
    /\ produced = "video"

\* C9: while Recording, the capture button, the switch button, the dropdown
\* and the save button are disabled and the zoom slider is enabled; on the
\* return to Idle the capture button is enabled again and the switch
\* controls are enabled exactly when there is more than one device.
C9_OnlyZoomAndStopWhileRecording ==
    [][/\ isRecording' =>
            /\ captureButton'.disabled
            /\ switchCameraButton'.disabled
            /\ cameraSelect'.disabled
            /\ saveButton'.disabled
            /\ ~zoomSlider'.disabled
       /\ (isRecording /\ ~isRecording') =>
            /\ ~captureButton'.disabled
            /\ switchCameraButton'.disabled = (Len(videoDevices') <= 1)
            /\ cameraSelect'.disabled = (Len(videoDevices') <= 1)
    ]_vars

\* C9's claim fails for the save button, which no handler disables.

\* A step that completes an enumeration of the devices.
Enumerated ==
    \E t \in BagToSet(tasks) :
        \/ \E labelled \in BOOLEAN : startApp(t, TRUE, labelled)
        \/ populated(t, TRUE)

\* C10: after every completed enumeration the switch button and the device
\* selector are hidden exactly when there are no or one video input devices,
\* and with no device the 'no camera available' message is shown.
C10_SwitchHiddenWithoutChoice ==
    [][Enumerated =>
        /\ Len(videoDevices') = cameras
        /\ switchCameraButton'.hidden = (Len(videoDevices') \in {0, 1})
        /\ selectorContainer'.hidden = (Len(videoDevices') \in {0, 1})
        /\ Len(videoDevices') = 0 => errorMsgElement' = showError(ErrNoCamera)
    ]_vars

\* C10's cases: one device, the controls hidden and no message; no device,
\* the controls hidden and the message shown.
C10_Witness ==
    /\ Len(videoDevices) = 1
    /\ switchCameraButton.hidden
    /\ selectorContainer.hidden
    /\ errorMsgElement.hidden

\* C11: the render loop starts exactly once and never exits: no drawFrame
\* callback is requested before the first 'playing' event, only the first
\* 'playing' event requests one, from then on exactly one is pending whatever
\* happens, and a drawFrame run while the video is paused or ended leaves the
\* canvas as it is and requests itself again.
C11_RenderLoopStartsOnce ==
    [][/\ (animationFrames = 0 /\ ~playing) => animationFrames' = 0
       /\ playing => animationFrames' = 1
       /\ animationFrames = 1 => animationFrames' = 1
       /\ (animationFrame /\ (video.paused \/ videoEnded)) =>
            /\ UNCHANGED canvas
            /\ animationFrames' = 1
    ]_vars

\* C11's cases: the loop was started on the first stream; the device was
\* switched and the second stream played, a second 'playing' event having
\* sized the canvas for it; the loop drew the second stream and went on
\* after the video was paused; one callback is pending.
C11_Witness ==
    /\ hasStartedDrawing
    /\ animationFrames = 1
    /\ Len(streams) = 2
    /\ canvas.frame = 2
    /\ canvas.image.frame = 2
    /\ video.paused

\* C12: no two stream acquisitions are in flight: in every step in which
\* initCamera issues a getUserMedia request, no request issued earlier is
\* still pending.
C12_OneAcquisitionInFlight ==
    [][PendingRequests' > PendingRequests => PendingRequests = 0]_vars

\* C12's claim fails where the switch button or the dropdown is used while
\* the request of startApp is pending.

\* Every variable but the link a step builds.
allButLink ==
    <<currentStream, currentZoom, mediaRecorder, recordedChunks, isRecording,
      mediaType, videoDevices, currentDeviceIndex, ctx, video, photo,
      recordedVideo, captureButton, switchCameraButton, saveButton, zoomSlider,
      zoomValueDisplay, errorMsgElement, cameraSelect, selectorContainer,
      cameras, streams, recorders, tasks, unloaded, produced,
      hasStartedDrawing, canvas, animationFrames, refreshes, chosen, crop>>

\* C13: with no artifact produced yet (mediaType is null), saveMedia does
\* nothing: the link it built is not clicked, so no download is offered, and
\* no variable changes.
C13_SaveWithoutArtifact ==
    [][(saveMedia /\ mediaType = "null") =>
        /\ ~link'.clicked
        /\ link'.href = NoSrc
        /\ UNCHANGED allButLink
    ]_vars

\* C13's case: the save button, shown by the markup, was clicked before
\* anything was captured, while a stream was active.
C13_Witness ==
    /\ link = DroppedLink
    /\ mediaType = "null"
    /\ produced = "null"
    /\ currentStream # 0

\* C14: the recording state changes only through the record toggle: from
\* Idle to Recording only in a toggle step that constructed and started a
\* recorder on the active stream, from Recording to Idle only in a toggle
\* step that told the recorder to stop; no other step changes it.
C14_RecordingStateByToggleOnly ==
    [][isRecording' # isRecording =>
        /\ toggleRecording
        /\ ~isRecording =>
              /\ currentStream # 0
              /\ Len(recorders') = Len(recorders) + 1
              /\ mediaRecorder' = Len(recorders')
              /\ recorders'[mediaRecorder'].state = "recording"
        /\ isRecording =>
              /\ recorders[mediaRecorder].state = "recording"
              /\ recorders'[mediaRecorder].state = "stopping"
    ]_vars

\* C14's case: the second recording is running; since it began the zoom was
\* changed and the recorder of the first recording finalized its clip, and
\* the page is still Recording.
C14_Witness ==
    /\ isRecording
    /\ mediaRecorder = 2
    /\ recorders[1].state = "inactive"
    /\ recordedChunks = <<1>>
    /\ mediaType = "video"
    /\ currentZoom = 15

\* The chunks the encoder of recorder r delivers: started without a
\* timeslice it delivers one chunk, when it stops, with the data gathered.
Delivered(r, size) == IF size > 0 THEN <<r>> ELSE <<>>

\* C15: the clip a recording's finalization publishes is made of exactly
\* the non-empty chunks the encoder of that recording delivered, in order,
\* and of no chunk of another recording.
C15_ClipOfOwnChunks ==
    [][\A r \in 1..Len(recorders), size \in 0..1 :
          mediaRecorderStopped(r, size) =>
              recordedVideo'.src = BlobUrl(Delivered(r, size))
    ]_vars

\* C15's claim fails where a recording is started after stopRecording and
\* before the stopped recorder has finalized: the stopped recorder's chunk
\* lands in the buffer of the new recording.

\* C16: the device list is refreshed once after startup: initCamera calls
\* populateCameraList at most one time, on the first successful stream
\* acquisition, and not on a later one.
C16_RefreshedOnce ==
    [][refreshes' # refreshes => refreshes = 0]_vars

\* C16's claim fails where the refresh is rejected, which leaves the labels
\* missing, and where a second acquisition reaches the label test before the
\* refresh of the first has completed.

\* x + y
Sum(x, y) == Frac(x[1] * y[2] + y[1] * x[2], x[2] * y[2])

\* C17: at every zoom factor of 1.0 or more the crop drawFrame computes is
\* centered and lies inside the frame: sourceWidth is frameW / z and
\* sourceHeight is frameH / z, the offsets are not negative and leave the
\* same margin on both sides, the rectangle ends inside the frame, and at
\* zoom 1.0 it is the whole frame.
C17_CropCenteredInside ==
    (crop.pc = "frame" /\ crop.drawn # <<>> /\ crop.zoom >= 10) =>
        LET c == crop.drawn[1]
            W == Whole(crop.frameW)
            H == Whole(crop.frameH)
        IN  /\ c.sourceWidth[1] * crop.zoom = 10 * crop.frameW * c.sourceWidth[2]
            /\ c.sourceHeight[1] * crop.zoom = 10 * crop.frameH * c.sourceHeight[2]
            /\ Sum(Sum(c.sourceX, c.sourceX), c.sourceWidth) = W
            /\ Sum(Sum(c.sourceY, c.sourceY), c.sourceHeight) = H
            /\ AtMost(Whole(0), c.sourceX)
            /\ AtMost(Whole(0), c.sourceY)
            /\ AtMost(Sum(c.sourceX, c.sourceWidth), W)
            /\ AtMost(Sum(c.sourceY, c.sourceHeight), H)
            /\ crop.zoom = 10 =>
                  c = [sourceX |-> Whole(0), sourceY |-> Whole(0),
                       sourceWidth |-> W, sourceHeight |-> H]

\* C17's case: a 4 x 3 frame drawn at zoom 1.5, whose crop is 8/3 x 2 at
\* (2/3, 1/2).
C17_Witness ==
    /\ crop.pc = "frame"
    /\ crop.frameW = 4 /\ crop.frameH = 3 /\ crop.zoom = 15
    /\ crop.drawn = <<[sourceX |-> <<2, 3>>, sourceY |-> <<1, 2>>,
                       sourceWidth |-> <<8, 3>>, sourceHeight |-> <<2, 1>>]>>

\* C18: while the page is Recording the active stream is neither released
\* nor replaced: currentStream is the stream whose audio track the recorder
\* was given, and that stream is live, until stopRecording.
C18_StreamKeptWhileRecording ==
    (isRecording /\ ~unloaded) =>
        /\ currentStream = recorders[mediaRecorder].audio
        /\ currentStream # 0
        /\ streams[currentStream].live

\* C18's claim fails where a getUserMedia request issued before the
\* recording began resolves while it runs.

\* C19: the last device choice wins: once every acquisition has completed,
\* none of them having failed, the active stream comes from the device the
\* user chose last with the switch button or the dropdown.
C19_LastChoiceWins ==
    (/\ chosen # 0
     /\ tasks = EmptyBag
     /\ currentStream # 0
     /\ errorMsgElement.hidden
     /\ ~unloaded) =>
        streams[currentStream].dev = chosen

\* C19's claim fails where the request of the earlier call resolves after
\* the request of the later one.

\* C20: with a stream active and no acquisition pending, the device index is
\* an index into the device list, and the device it names is the one the
\* active stream comes from.
C20_IndexNamesActiveDevice ==
    (/\ currentStream # 0
     /\ tasks = EmptyBag
     /\ ~unloaded) =>
        /\ 0 <= currentDeviceIndex
        /\ currentDeviceIndex < Len(videoDevices)
        /\ videoDevices[currentDeviceIndex + 1].deviceId = streams[currentStream].dev

\* C20's claim fails where video.play() is rejected after the stream was
\* acquired, so that the last block of initCamera is skipped, and where the
\* device list is empty because the enumeration was rejected.

====
